---- MODULE Spec2Model ----
(***************************************************************************)
(* KADI Slack agent: the per-user rate limiter (utils/rateLimit.ts), the   *)
(* broker invocation wrapper (services/kadiClient.ts, ability.invoke) and  *)
(* the message-handling flow (handlers/eventHandlers.ts,                   *)
(* handlers/messageHandler.ts).                                            *)
(***************************************************************************)
EXTENDS Integers, Sequences, FiniteSets, TLC

(***************************************************************************)
(* Program constants.                                                      *)
(***************************************************************************)
TOOL_CALL_COOLDOWN_MS == 2000

MAX_MESSAGES_PER_MINUTE == 20

MESSAGE_WINDOW_MS == 60000

\* The period of the capability refresh: five minutes.
TOOL_REFRESH_MS == 300000

(***************************************************************************)
(* Bounds of the model.                                                    *)
(***************************************************************************)
\* Date.now() when the process starts (any value far above the cooldown).
StartTime == 100000

\* The calls of ability.invoke made in one behaviour, by the channel loads and
\* by the handlers of messages.
MaxCalls == 3

\* The calls of ability.invoke made in one behaviour of the gateway on its own.
MaxInvokes == 2

\* The inbound messages handled in one behaviour.
MaxMsgs == 2

\* How far past MAX_MESSAGES_PER_MINUTE a user's messageCount may be driven.
MaxExcess == 2

\* The longest text handed to the channel parsing.
MaxLen == 7

\* The capability-refresh periods the clock may run through in one behaviour.
MaxPeriods == 4

Users == {"U1", "U2"}

\* The user whose checks the limiter specification follows past the maximum.
Sender == "U1"

\* The instants at which the clock is read, as offsets from StartTime: just
\* below, at and just above the cooldown and the window length.
Offsets == {0, 1999, 2000, 60000, 60001}

Instants == {StartTime + d : d \in Offsets}

\* The instants around the cooldown alone.
CooldownInstants == {t \in Instants : t <= StartTime + TOOL_CALL_COOLDOWN_MS}

VARIABLES
    now,             \* Date.now()
    userRateLimits,  \* Map<string, UserRateLimit>: Undefined for a user without a record
    lastCheck,       \* history: the most recent call of either limiter check
    msgsInWindow,    \* history: per user, the message checks made since messageWindowStart last changed
    prevTool,        \* history: per user, when the latest tool check was made and whether it was allowed
    span,            \* history: per user, an observed span of time and the message checks allowed in it
    calls,           \* per call of ability.invoke: its promise, timer, listener and submission
    toolsCache,      \* Map<string, ToolDefinition[]>: the tool names cached under each key
    msgs,            \* per inbound message: where its handler stands, and the replies said
    main,            \* where main() stands
    cachedChannels,  \* CachedChannel[]: the rows of the channel cache
    refresh,         \* the channel load in progress: the call of ability.invoke it awaits
    lastRefresh,     \* history: the most recent channel load that has finished
    payload,         \* a text handed to the channel parsing
    parsed,          \* what the channel parsing made of payload
    upstream,        \* the tool names the Slack MCP server offers through the broker
    upstreamSince    \* history: per tool, when it was last added to or removed from upstream

historyVars == <<lastCheck, msgsInWindow, prevTool, span>>

limiterVars == <<userRateLimits, historyVars>>

gatewayVars == <<calls>>

flowVars == <<toolsCache, msgs>>

channelVars == <<main, cachedChannels, refresh, lastRefresh>>

parseVars == <<payload, parsed>>

capabilityVars == <<upstream, upstreamSince>>

vars ==
    <<now, userRateLimits, lastCheck, msgsInWindow, prevTool, span, calls,
      toolsCache, msgs, main, cachedChannels, refresh, lastRefresh, payload, parsed,
      upstream, upstreamSince>>

(***************************************************************************)
(* rateLimit.ts                                                            *)
(***************************************************************************)
\* Map.get(key) of a key the map does not hold
Undefined == [undefined |-> TRUE]

\* Map.has(key)
MapHas(map, key) == map[key] # Undefined

\* Map.set(key, value)
MapSet(map, key, value) == [map EXCEPT ![key] = value]

\* Math.ceil(a / b) for b > 0
Ceil(a, b) == IF a % b = 0 THEN a \div b ELSE (a \div b) + 1

Allowed == [allowed |-> TRUE, reason |-> "", seconds |-> 0]

\* checkRateLimit with the maximum compared one too high.
checkRateLimitOffByOne(limits, userId, t) ==
    IF ~MapHas(limits, userId)
    THEN [map |-> MapSet(limits, userId,
                         [lastToolCallTime |-> 0,
                          messageCount |-> 1,
                          messageWindowStart |-> t]),
          result |-> Allowed]
    ELSE LET limit == limits[userId] IN
         IF t - limit.messageWindowStart > MESSAGE_WINDOW_MS
         THEN [map |-> MapSet(limits, userId,
                              [limit EXCEPT !.messageCount = 1,
                                            !.messageWindowStart = t]),
               result |-> Allowed]
         ELSE LET counted == [limit EXCEPT !.messageCount = @ + 1] IN
              IF counted.messageCount > MAX_MESSAGES_PER_MINUTE + 1
              THEN [map |-> MapSet(limits, userId, counted),
                    result |-> [allowed |-> FALSE,
                                reason |-> "Rate limit exceeded: max 20 messages per minute",
                                seconds |-> 0]]
              ELSE [map |-> MapSet(limits, userId, counted),
                    result |-> Allowed]

\* A set that stores the value under every key.
MapSetAll(map, key, value) == [k \in DOMAIN map |-> value]

\* checkRateLimit that keeps one record for all users.
checkRateLimitOneRecord(limits, userId, t) ==
    IF ~MapHas(limits, userId)
    THEN [map |-> MapSetAll(limits, userId,
                         [lastToolCallTime |-> 0,
                          messageCount |-> 1,
                          messageWindowStart |-> t]),
          result |-> Allowed]
    ELSE LET limit == limits[userId] IN
         IF t - limit.messageWindowStart > MESSAGE_WINDOW_MS
         THEN [map |-> MapSetAll(limits, userId,
                              [limit EXCEPT !.messageCount = 1,
                                            !.messageWindowStart = t]),
               result |-> Allowed]
         ELSE LET counted == [limit EXCEPT !.messageCount = @ + 1] IN
              IF counted.messageCount > MAX_MESSAGES_PER_MINUTE
              THEN [map |-> MapSetAll(limits, userId, counted),
                    result |-> [allowed |-> FALSE,
                                reason |-> "Rate limit exceeded: max 20 messages per minute",
                                seconds |-> 0]]
              ELSE [map |-> MapSetAll(limits, userId, counted),
                    result |-> Allowed]

\* checkRateLimit with the window taken to end when MESSAGE_WINDOW_MS have
\* passed, not when more have.
checkRateLimitInclusiveWindow(limits, userId, t) ==
    IF ~MapHas(limits, userId)
    THEN [map |-> MapSet(limits, userId,
                         [lastToolCallTime |-> 0,
                          messageCount |-> 1,
                          messageWindowStart |-> t]),
          result |-> Allowed]
    ELSE LET limit == limits[userId] IN
         IF t - limit.messageWindowStart >= MESSAGE_WINDOW_MS
         THEN [map |-> MapSet(limits, userId,
                              [limit EXCEPT !.messageCount = 1,
                                            !.messageWindowStart = t]),
               result |-> Allowed]
         ELSE LET counted == [limit EXCEPT !.messageCount = @ + 1] IN
              IF counted.messageCount > MAX_MESSAGES_PER_MINUTE
              THEN [map |-> MapSet(limits, userId, counted),
                    result |-> [allowed |-> FALSE,
                                reason |-> "Rate limit exceeded: max 20 messages per minute",
                                seconds |-> 0]]
              ELSE [map |-> MapSet(limits, userId, counted),
                    result |-> Allowed]

\* checkRateLimit(userId) called when Date.now() = t, on the map limits:
\* the map afterwards and the RateLimitResult.
checkRateLimit(limits, userId, t) ==
    IF ~MapHas(limits, userId)
    THEN [map |-> MapSet(limits, userId,
                         [lastToolCallTime |-> 0,
                          messageCount |-> 1,
                          messageWindowStart |-> t]),
          result |-> Allowed]
    ELSE LET limit == limits[userId] IN
         IF t - limit.messageWindowStart > MESSAGE_WINDOW_MS
         THEN [map |-> MapSet(limits, userId,
                              [limit EXCEPT !.messageCount = 1,
                                            !.messageWindowStart = t]),
               result |-> Allowed]
         ELSE LET counted == [limit EXCEPT !.messageCount = @ + 1] IN
              IF counted.messageCount > MAX_MESSAGES_PER_MINUTE
              THEN [map |-> MapSet(limits, userId, counted),
                    result |-> [allowed |-> FALSE,
                                reason |-> "Rate limit exceeded: max 20 messages per minute",
                                seconds |-> 0]]
              ELSE [map |-> MapSet(limits, userId, counted),
                    result |-> Allowed]

\* checkToolCallThrottle with the cooldown compared by <= instead of <.
checkToolCallThrottleInclusive(limits, userId, t) ==
    IF ~MapHas(limits, userId)
    THEN [map |-> MapSet(limits, userId,
                         [lastToolCallTime |-> t,
                          messageCount |-> 0,
                          messageWindowStart |-> t]),
          result |-> Allowed]
    ELSE LET limit == limits[userId]
             timeSinceLastTool == t - limit.lastToolCallTime
         IN  IF timeSinceLastTool <= TOOL_CALL_COOLDOWN_MS
             THEN [map |-> limits,
                   result |-> [allowed |-> FALSE,
                               reason |-> "Tool calls are throttled",
                               seconds |-> Ceil(TOOL_CALL_COOLDOWN_MS - timeSinceLastTool, 1000)]]
             ELSE [map |-> MapSet(limits, userId, [limit EXCEPT !.lastToolCallTime = t]),
                   result |-> Allowed]

\* checkToolCallThrottle without its denial: every check is allowed and stamped.
checkToolCallThrottleNoCooldown(limits, userId, t) ==
    IF ~MapHas(limits, userId)
    THEN [map |-> MapSet(limits, userId,
                         [lastToolCallTime |-> t,
                          messageCount |-> 0,
                          messageWindowStart |-> t]),
          result |-> Allowed]
    ELSE [map |-> MapSet(limits, userId, [limits[userId] EXCEPT !.lastToolCallTime = t]),
          result |-> Allowed]

\* checkToolCallThrottle that stamps lastToolCallTime on a denied check too.
checkToolCallThrottleStampsDenied(limits, userId, t) ==
    IF ~MapHas(limits, userId)
    THEN [map |-> MapSet(limits, userId,
                         [lastToolCallTime |-> t,
                          messageCount |-> 0,
                          messageWindowStart |-> t]),
          result |-> Allowed]
    ELSE LET limit == limits[userId]
             timeSinceLastTool == t - limit.lastToolCallTime
         IN  IF timeSinceLastTool < TOOL_CALL_COOLDOWN_MS
             THEN [map |-> MapSet(limits, userId, [limit EXCEPT !.lastToolCallTime = t]),
                   result |-> [allowed |-> FALSE,
                               reason |-> "Tool calls are throttled",
                               seconds |-> Ceil(TOOL_CALL_COOLDOWN_MS - timeSinceLastTool, 1000)]]
             ELSE [map |-> MapSet(limits, userId, [limit EXCEPT !.lastToolCallTime = t]),
                   result |-> Allowed]

\* checkToolCallThrottle(userId) called when Date.now() = t.
checkToolCallThrottle(limits, userId, t) ==
    IF ~MapHas(limits, userId)
    THEN [map |-> MapSet(limits, userId,
                         [lastToolCallTime |-> t,
                          messageCount |-> 0,
                          messageWindowStart |-> t]),
          result |-> Allowed]
    ELSE LET limit == limits[userId]
             timeSinceLastTool == t - limit.lastToolCallTime
         IN  IF timeSinceLastTool < TOOL_CALL_COOLDOWN_MS
             THEN [map |-> limits,
                   result |-> [allowed |-> FALSE,
                               reason |-> "Tool calls are throttled",
                               seconds |-> Ceil(TOOL_CALL_COOLDOWN_MS - timeSinceLastTool, 1000)]]
             ELSE [map |-> MapSet(limits, userId, [limit EXCEPT !.lastToolCallTime = t]),
                   result |-> Allowed]

(***************************************************************************)
(* History bookkeeping of the limiter calls.                               *)
(***************************************************************************)
NoCheck ==
    [kind |-> "none", user |-> "", at |-> 0, result |-> Allowed,
     before |-> Undefined, after |-> Undefined, n |-> 0,
     prevAt |-> 0, prevAllowed |-> FALSE]

NoTool == [at |-> 0, allowed |-> FALSE, made |-> FALSE]

\* The user's message checks made while messageWindowStart kept its value,
\* the call that produced out included.
CountInWindow(u, out) ==
    IF /\ MapHas(userRateLimits, u)
       /\ out.map[u].messageWindowStart = userRateLimits[u].messageWindowStart
    THEN msgsInWindow[u] + 1
    ELSE 1

\* An observed span starts at the time of some allowed message check and is
\* shorter than MESSAGE_WINDOW_MS; it counts the message checks allowed in it.
\* An allowed check either starts a new span or, when it falls into the
\* observed one, is counted in it.
ObserveSpan(u, out) ==
    IF out.result.allowed
    THEN \/ span' = [span EXCEPT ![u] = [start |-> now, allowed |-> 1]]
         \/ /\ span[u].allowed > 0
            /\ now - span[u].start < MESSAGE_WINDOW_MS
            /\ span' = [span EXCEPT ![u].allowed = @ + 1]
    ELSE span' = span

\* messageCount is driven at most MaxExcess past the maximum.
CountBelowCap(u) ==
    IF MapHas(userRateLimits, u)
    THEN IF now - userRateLimits[u].messageWindowStart > MESSAGE_WINDOW_MS
         THEN TRUE
         ELSE userRateLimits[u].messageCount < MAX_MESSAGES_PER_MINUTE + MaxExcess
    ELSE TRUE

InitLimiter ==
    /\ now = StartTime
    /\ userRateLimits = [u \in Users |-> Undefined]
    /\ lastCheck = NoCheck
    /\ msgsInWindow = [u \in Users |-> 0]
    /\ prevTool = [u \in Users |-> NoTool]
    /\ span = [u \in Users |-> [start |-> 0, allowed |-> 0]]

\* A call of checkRateLimit(u) with its record in the history.
RateLimitCall(u) ==
    LET out == checkRateLimit(userRateLimits, u, now) IN
    /\ userRateLimits' = out.map
    /\ msgsInWindow' = [msgsInWindow EXCEPT ![u] = CountInWindow(u, out)]
    /\ ObserveSpan(u, out)
    /\ lastCheck' = [kind |-> "message", user |-> u, at |-> now,
                     result |-> out.result,
                     before |-> userRateLimits[u], after |-> out.map[u],
                     n |-> CountInWindow(u, out),
                     prevAt |-> 0, prevAllowed |-> FALSE]
    /\ UNCHANGED prevTool

\* A call of checkToolCallThrottle(u) with its record in the history.
ToolThrottleCall(u) ==
    LET out == checkToolCallThrottle(userRateLimits, u, now) IN
    /\ userRateLimits' = out.map
    /\ prevTool' = [prevTool EXCEPT ![u] =
                      [at |-> now, allowed |-> out.result.allowed, made |-> TRUE]]
    /\ lastCheck' = [kind |-> IF prevTool[u].made THEN "tool" ELSE "firsttool",
                     user |-> u, at |-> now,
                     result |-> out.result,
                     before |-> userRateLimits[u], after |-> out.map[u],
                     n |-> 0,
                     prevAt |-> prevTool[u].at, prevAllowed |-> prevTool[u].allowed]
    /\ UNCHANGED <<msgsInWindow, span>>

(***************************************************************************)
(* kadiClient.ts: ability.invoke.  One record per call: the promise that   *)
(* invoke returns (state, value), the deadline timer, whether the call's   *)
(* handleMessage is registered on the connection, the closure variable     *)
(* currentRequestId, and the submission protocol.invokeTool(...) with the  *)
(* answer the broker gives to it.                                          *)
(***************************************************************************)
Calls == 1 .. MaxCalls

\* currentRequestId before its assignment, and message.params?.requestId of a
\* message that carries none: undefined.
NoId == 0

\* The correlation id the broker issues for the c-th submission.
RequestId(c) == c

ABILITY_RESPONSE == "kadi.ability.response"

Methods == {ABILITY_RESPONSE, "kadi.other"}

\* The results a notification may carry, and the results a submission may
\* return inline: the latter include a falsy one.
Payloads == {"p1"}

InlineResults == {""} \cup Payloads

\* The messages the connection may emit.
Messages ==
    [method : Methods, requestId : {NoId} \cup {RequestId(c) : c \in Calls}, result : Payloads]

NoReply == [kind |-> "none", requestId |-> NoId, result |-> ""]

\* What protocol.invokeTool may settle with for the c-th submission: an inline
\* result, an acknowledgment carrying a requestId, or a failure.
Replies(c) ==
    {[kind |-> "inline", requestId |-> NoId, result |-> p] : p \in InlineResults}
    \cup {[kind |-> "pending", requestId |-> RequestId(c), result |-> ""]}
    \cup {[kind |-> "error", requestId |-> NoId, result |-> "broker error"]}

NoCall ==
    [state |-> "unused", value |-> "", by |-> "", byId |-> NoId, effects |-> 0,
     timer |-> "none", listening |-> FALSE, currentRequestId |-> NoId,
     submission |-> "none", reply |-> NoReply,
     early |-> "", live |-> FALSE, user |-> "", at |-> 0, setup |-> <<>>]

\* clearTimeout(timeout)
clearTimeout(p) == IF p.timer = "armed" THEN [p EXCEPT !.timer = "cleared"] ELSE p

\* listener(): connection.off("message", handleMessage)
listener(p) == [p EXCEPT !.listening = FALSE]

\* A promise that every resolve or reject changes.
settleEveryTime(p, state, v, by, id) ==
    [p EXCEPT !.state = state, !.value = v, !.by = by, !.byId = id, !.effects = @ + 1]

\* resolve(v) / reject(e) of the promise: only the first call of either takes
\* effect.  by and byId record which path settled the promise; effects counts
\* the changes of its outcome.
settle(p, state, v, by, id) ==
    IF p.state = "pending"
    THEN [p EXCEPT !.state = state, !.value = v, !.by = by, !.byId = id,
                   !.effects = @ + 1]
    ELSE p

resolve(p, v, by, id) == settle(p, "resolved", v, by, id)

reject(p, e, by) == settle(p, "rejected", e, by, NoId)

\* The setTimeout callback without its reject.
onTimeoutNoReject(p) == listener([p EXCEPT !.timer = "fired"])

\* The setTimeout callback (lines 166-169).
onTimeout(p) ==
    reject(listener([p EXCEPT !.timer = "fired"]),
           "Tool invocation timeout", "timeout")

\* A handleMessage that takes every tool-result notification for its own.
handleMessageAnyId(p, message) ==
    IF message.method = ABILITY_RESPONSE
    THEN resolve(listener(clearTimeout(p)), message.result, "notification",
                 message.requestId)
    ELSE p

\* handleMessage(message) of one call (lines 171-182).
handleMessage(p, message) ==
    IF message.method = ABILITY_RESPONSE /\ message.requestId = p.currentRequestId
    THEN resolve(listener(clearTimeout(p)), message.result, "notification",
                 message.requestId)
    ELSE p

\* The .then callback without the listener() of its inline branch.
onResponseKeepsListener(p) ==
    IF p.reply.kind = "pending"
    THEN [p EXCEPT !.currentRequestId = p.reply.requestId]
    ELSE resolve(clearTimeout(p), p.reply.result, "inline", NoId)

\* The .then callback that cancels the timer when it remembers the requestId.
onResponseClearsTimer(p) ==
    IF p.reply.kind = "pending"
    THEN clearTimeout([p EXCEPT !.currentRequestId = p.reply.requestId])
    ELSE resolve(listener(clearTimeout(p)), p.reply.result, "inline", NoId)

\* The .then callback of the submission (lines 199-209).
onResponse(p) ==
    IF p.reply.kind = "pending"
    THEN [p EXCEPT !.currentRequestId = p.reply.requestId]
    ELSE resolve(listener(clearTimeout(p)), p.reply.result, "inline", NoId)

\* The .catch callback without its listener().
onErrorKeepsListener(p) == reject(clearTimeout(p), p.reply.result, "error")

\* The .catch callback of the submission (lines 210-214).
onError(p) == reject(listener(clearTimeout(p)), p.reply.result, "error")

\* ability.invoke with the connection looked up after the timer and the
\* listener have been set up.
invokeChecksConnectionLate(c, u, connection) ==
    IF ~connection
    THEN [NoCall EXCEPT !.state = "rejected",
                        !.value = "No broker connection available",
                        !.by = "noconnection", !.effects = 1,
                        !.timer = "armed",
                        !.listening = TRUE,
                        !.user = u, !.at = now]
    ELSE [NoCall EXCEPT !.state = "pending",
                        !.timer = "armed",
                        !.listening = TRUE,
                        !.submission = "inflight",
                        !.setup = <<"setTimeout", "on", "invokeTool">>,
                        !.user = u, !.at = now]

\* ability.invoke that submits the request before it arms the timer and
\* registers the listener.
invokeSubmitsFirst(c, u, connection) ==
    IF ~connection
    THEN [NoCall EXCEPT !.state = "rejected",
                        !.value = "No broker connection available",
                        !.by = "noconnection", !.effects = 1,
                        !.user = u, !.at = now]
    ELSE [NoCall EXCEPT !.state = "pending",
                        !.timer = "armed",
                        !.listening = TRUE,
                        !.submission = "inflight",
                        !.setup = <<"invokeTool", "setTimeout", "on">>,
                        !.user = u, !.at = now]

\* ability.invoke(toolName, params) (lines 156-198) as the c-th call, made for
\* user u; connection: whether manager.getConnection('default') returns a
\* connection.  Without one it throws; with one it arms the timer, registers
\* handleMessage and submits the request, in this order and without an await
\* between them; setup records the order (history).
invoke(c, u, connection) ==
    IF ~connection
    THEN [NoCall EXCEPT !.state = "rejected",
                        !.value = "No broker connection available",
                        !.by = "noconnection", !.effects = 1,
                        !.user = u, !.at = now]
    ELSE [NoCall EXCEPT !.state = "pending",
                        !.timer = "armed",
                        !.listening = TRUE,
                        !.submission = "inflight",
                        !.setup = <<"setTimeout", "on", "invokeTool">>,
                        !.user = u, !.at = now]

\* The call made next: calls are numbered in the order they are made.
NextCall == Cardinality({c \in Calls : calls[c].state # "unused"}) + 1

\* A message with the call's requestId that arrives while the call listens
\* and before its acknowledgment has been processed: its result is remembered
\* in early (the first such message).
noteEarly(c, p, message) ==
    IF /\ calls[c].listening
       /\ calls[c].submission = "inflight"
       /\ calls[c].early = ""
       /\ message.method = ABILITY_RESPONSE
       /\ message.requestId = RequestId(c)
    THEN [p EXCEPT !.early = message.result]
    ELSE p

InitGateway == calls = [c \in Calls |-> NoCall]

\* The submission of call c settles with r and its callback runs.
Acknowledge(c, r) ==
    /\ calls[c].submission = "inflight"
    /\ LET p == [calls[c] EXCEPT !.reply = r, !.submission = "done"] IN
       calls' = [calls EXCEPT ![c] = IF r.kind = "error" THEN onError(p) ELSE onResponse(p)]
    /\ UNCHANGED <<now, limiterVars, flowVars, channelVars, parseVars, capabilityVars>>

\* The connection emits a message: every registered handleMessage runs.
Deliver(message) ==
    /\ \E c \in Calls : calls[c].listening
    /\ calls' = [c \in Calls |->
                   IF calls[c].listening
                   THEN noteEarly(c, handleMessage(calls[c], message), message)
                   ELSE calls[c]]
    /\ UNCHANGED <<now, limiterVars, flowVars, channelVars, parseVars, capabilityVars>>

\* The deadline of call c expires.
Timeout(c) ==
    /\ calls[c].timer = "armed"
    /\ calls' = [calls EXCEPT ![c] = onTimeout(calls[c])]
    /\ UNCHANGED <<now, limiterVars, flowVars, channelVars, parseVars, capabilityVars>>

(***************************************************************************)
(* eventHandlers.ts and messageHandler.ts: the handling of one message.    *)
(***************************************************************************)
Msgs == 1 .. MaxMsgs

\* eventHandlers.ts line 13
slackAgentName == "Slack MCP Server"

\* The keys a caller may look the tools up under.
AgentNames == {"slack", slackAgentName}

\* The names of slackTools (kadiClient.ts lines 111-137).
slackTools ==
    {"slack_channels_list", "slack_conversations_history",
     "slack_conversations_replies", "slack_conversations_search_messages",
     "slack_conversations_add_message"}

\* fetchAndCacheCapabilities: toolsCache.set("slack", slackTools) (line 140).
fetchAndCacheCapabilities(cache) == MapSet(cache, "slack", [tools |-> slackTools])

\* A lookup that finds every tool name under every key.
toolsOfAnyName(cache, name) == slackTools \cup {"slack_files_upload"}

\* toolsCache.get(name) || []
toolsOf(cache, name) == IF MapHas(cache, name) THEN cache[name].tools ELSE {}

\* The decisions the language model may return: text that is no JSON, an
\* answer (alone or beside a tool name), neither an answer nor a tool, or a
\* tool name.
Decisions ==
    {[kind |-> "malformed", answer |-> "", tool |-> ""],
     [kind |-> "answer", answer |-> "a1", tool |-> ""],
     [kind |-> "answer", answer |-> "a1", tool |-> "slack_channels_list"],
     [kind |-> "empty", answer |-> "", tool |-> ""],
     [kind |-> "tool", answer |-> "", tool |-> "slack_channels_list"],
     [kind |-> "tool", answer |-> "", tool |-> "slack_files_upload"]}

NoMsg ==
    [pc |-> "idle", user |-> "", agentName |-> "", via |-> "", raced |-> FALSE,
     call |-> 0, replies |-> <<>>, channels |-> <<>>, readDuring |-> 0]

\* c.Name or c.ID of a cached row: undefined when the row has no such field.
\* No header of the payloads here spells Name.
FieldOf(row, header) ==
    IF header \in DOMAIN row THEN row[header] ELSE <<"undefined">>

\* channelLookupText (messageHandler.ts lines 45-47): one entry "Name = ID"
\* per cached row, in the order of the rows; none for an empty cache.
channelLookupText(cache) ==
    [i \in 1 .. Len(cache) |-> <<FieldOf(cache[i], <<"Name">>), FieldOf(cache[i], <<"ID">>)>>]

\* handleSlackInput up to its request to the language model (lines 24-87): it
\* builds the channel list from the cache (history: readDuring is the call of
\* the refresh in flight at that moment, 0 without one).
readChannels(h) ==
    [h EXCEPT !.pc = "deciding",
              !.channels = channelLookupText(cachedChannels),
              !.readDuring = refresh]

\* A say that sends the fixed part of the text only.
sayWithoutDetail(h, kind, detail) ==
    [h EXCEPT !.pc = "done", !.replies = Append(@, [kind |-> kind, detail |-> ""])]

\* await say(text)
say(h, kind, detail) ==
    [h EXCEPT !.pc = "done", !.replies = Append(@, [kind |-> kind, detail |-> detail])]

\* The message handled next: messages are numbered in the order they arrive.
NextMsg == Cardinality({m \in Msgs : msgs[m].pc # "idle"}) + 1

InitFlow ==
    /\ toolsCache = fetchAndCacheCapabilities([a \in AgentNames |-> Undefined])
    /\ msgs = [m \in Msgs |-> NoMsg]

\* Event handlers that pass a message on whatever checkRateLimit returns.
SlackEventPassesDenied(m, u, bot) ==
    /\ main \in {"starting", "running"}
    /\ m = NextMsg
    /\ IF bot
       THEN /\ msgs' = [msgs EXCEPT ![m] =
                          [NoMsg EXCEPT !.pc = "ignored", !.user = u, !.via = "event"]]
            /\ UNCHANGED userRateLimits
       ELSE /\ userRateLimits' = checkRateLimit(userRateLimits, u, now).map
            /\ LET rateCheck == checkRateLimit(userRateLimits, u, now).result
                   h == [NoMsg EXCEPT !.user = u, !.via = "event",
                                      !.agentName = slackAgentName]
               IN  msgs' = [msgs EXCEPT ![m] =
                              readChannels(h)]
    /\ UNCHANGED <<now, historyVars, gatewayVars, toolsCache, channelVars, parseVars, capabilityVars>>

\* An app_mention or direct-message event of user u arrives, which it can
\* once main() has registered the handlers and called slackApp.start()
\* (eventHandlers.ts
\* lines 21-46 and 54-81): a bot's message is dropped, a message over the rate
\* limit is answered with the reason, any other message is passed to
\* handleSlackInput, which runs up to its request to the language model.
SlackEvent(m, u, bot) ==
    /\ main \in {"starting", "running"}
    /\ m = NextMsg
    /\ IF bot
       THEN /\ msgs' = [msgs EXCEPT ![m] =
                          [NoMsg EXCEPT !.pc = "ignored", !.user = u, !.via = "event"]]
            /\ UNCHANGED userRateLimits
       ELSE /\ userRateLimits' = checkRateLimit(userRateLimits, u, now).map
            /\ LET rateCheck == checkRateLimit(userRateLimits, u, now).result
                   h == [NoMsg EXCEPT !.user = u, !.via = "event",
                                      !.agentName = slackAgentName]
               IN  msgs' = [msgs EXCEPT ![m] =
                              IF rateCheck.allowed
                              THEN readChannels(h)
                              ELSE say(h, "Rate limit", rateCheck.reason)]
    /\ UNCHANGED <<now, historyVars, gatewayVars, toolsCache, channelVars, parseVars, capabilityVars>>

\* handleSlackInput(text, user, ..., slackAgentName) called by another caller
\* than the event handlers, with agentName as its slackAgentName (the
\* function is exported): it runs up to its request to the language model.
HandleSlackInput(m, u, agentName) ==
    /\ m = NextMsg
    /\ msgs' = [msgs EXCEPT ![m] =
                  readChannels([NoMsg EXCEPT !.user = u, !.via = "call",
                                             !.agentName = agentName])]
    /\ UNCHANGED <<now, limiterVars, gatewayVars, toolsCache, channelVars, parseVars, capabilityVars>>

\* Whether the handler of another message of the same user is waiting for the
\* language model's decision (history: the handlers interleave).
OthersDeciding(m) ==
    \E o \in Msgs \ {m} : msgs[o].pc = "deciding" /\ msgs[o].user = msgs[m].user

\* A handler that goes on to the invocation when the cooldown check denies.
DecideIgnoresThrottle(m, d) ==
    LET h == [msgs[m] EXCEPT !.raced = OthersDeciding(m)]
        known == d.tool \in toolsOf(toolsCache, h.agentName)
        throttleCheck == checkToolCallThrottle(userRateLimits, h.user, now).result
        c == NextCall
    IN
    /\ msgs[m].pc = "deciding"
    /\ IF d.kind = "malformed"
       THEN /\ msgs' = [msgs EXCEPT ![m] = say(h, "I couldn't parse the assistant's response.", "")]
            /\ UNCHANGED <<userRateLimits, calls>>
       ELSE IF d.kind = "answer"
       THEN /\ msgs' = [msgs EXCEPT ![m] = say(h, "answer", d.answer)]
            /\ UNCHANGED <<userRateLimits, calls>>
       ELSE IF d.kind = "empty"
       THEN /\ msgs' = [msgs EXCEPT ![m] = say(h, "I'm not sure which tool to call.", "")]
            /\ UNCHANGED <<userRateLimits, calls>>
       ELSE IF ~known
       THEN /\ msgs' = [msgs EXCEPT ![m] = say(h, "Tool not available.", d.tool)]
            /\ UNCHANGED <<userRateLimits, calls>>
       ELSE /\ userRateLimits' = checkToolCallThrottle(userRateLimits, h.user, now).map
            /\ IF ~throttleCheck.allowed
               THEN /\ c \in Calls
                    /\ \E connection \in BOOLEAN :
                         LET p == [invoke(c, h.user, connection) EXCEPT !.live = connection] IN
                         /\ calls' = [calls EXCEPT ![c] = p]
                         /\ msgs' = [msgs EXCEPT ![m] =
                                       IF p.state = "rejected"
                                       THEN say([h EXCEPT !.call = c], "Tool call failed", p.value)
                                       ELSE [h EXCEPT !.pc = "invoking", !.call = c]]
               ELSE /\ c \in Calls
                    /\ \E connection \in BOOLEAN :
                         LET p == [invoke(c, h.user, connection) EXCEPT !.live = connection] IN
                         /\ calls' = [calls EXCEPT ![c] = p]
                         /\ msgs' = [msgs EXCEPT ![m] =
                                       IF p.state = "rejected"
                                       THEN say([h EXCEPT !.call = c], "Tool call failed", p.value)
                                       ELSE [h EXCEPT !.pc = "invoking", !.call = c]]
    /\ UNCHANGED <<now, historyVars, toolsCache, channelVars, parseVars, capabilityVars>>

\* The language model returns decision d to the handler of message m, which
\* runs on to its reply or to the await of ability.invoke (messageHandler.ts
\* lines 96-156).
Decide(m, d) ==
    LET h == [msgs[m] EXCEPT !.raced = OthersDeciding(m)]
        known == d.tool \in toolsOf(toolsCache, h.agentName)
        throttleCheck == checkToolCallThrottle(userRateLimits, h.user, now).result
        c == NextCall
    IN
    /\ msgs[m].pc = "deciding"
    /\ IF d.kind = "malformed"
       THEN /\ msgs' = [msgs EXCEPT ![m] = say(h, "I couldn't parse the assistant's response.", "")]
            /\ UNCHANGED <<userRateLimits, calls>>
       ELSE IF d.kind = "answer"
       THEN /\ msgs' = [msgs EXCEPT ![m] = say(h, "answer", d.answer)]
            /\ UNCHANGED <<userRateLimits, calls>>
       ELSE IF d.kind = "empty"
       THEN /\ msgs' = [msgs EXCEPT ![m] = say(h, "I'm not sure which tool to call.", "")]
            /\ UNCHANGED <<userRateLimits, calls>>
       ELSE IF ~known
       THEN /\ msgs' = [msgs EXCEPT ![m] = say(h, "Tool not available.", d.tool)]
            /\ UNCHANGED <<userRateLimits, calls>>
       ELSE /\ userRateLimits' = checkToolCallThrottle(userRateLimits, h.user, now).map
            /\ IF ~throttleCheck.allowed
               THEN /\ msgs' = [msgs EXCEPT ![m] = say(h, "Throttle", throttleCheck.reason)]
                    /\ UNCHANGED calls
               ELSE /\ c \in Calls
                    /\ \E connection \in BOOLEAN :
                         LET p == [invoke(c, h.user, connection) EXCEPT !.live = connection] IN
                         /\ calls' = [calls EXCEPT ![c] = p]
                         /\ msgs' = [msgs EXCEPT ![m] =
                                       IF p.state = "rejected"
                                       THEN say([h EXCEPT !.call = c], "Tool call failed", p.value)
                                       ELSE [h EXCEPT !.pc = "invoking", !.call = c]]
    /\ UNCHANGED <<now, historyVars, toolsCache, channelVars, parseVars, capabilityVars>>

\* The request to the language model fails: the await at line 87 throws
\* outside any try block, handleSlackInput rejects and the handler ends without
\* a reply.
DecisionFails(m) ==
    /\ msgs[m].pc = "deciding"
    /\ msgs' = [msgs EXCEPT ![m].pc = "failed"]
    /\ UNCHANGED <<now, limiterVars, gatewayVars, toolsCache, channelVars, parseVars, capabilityVars>>

\* A handler without the catch around the invocation: the rejection leaves
\* handleSlackInput.
ResumeWithoutCatch(m, summarize) ==
    LET h == msgs[m]
        p == calls[h.call]
    IN
    /\ h.pc = "invoking"
    /\ p.state \in {"resolved", "rejected"}
    /\ msgs' = [msgs EXCEPT ![m] =
                  IF p.state = "rejected"
                  THEN [h EXCEPT !.pc = "failed"]
                  ELSE IF p.value = ""
                  THEN say(h, "Tool executed.", "")
                  ELSE IF summarize
                  THEN [h EXCEPT !.pc = "summarizing"]
                  ELSE say(h, "Tool Result", p.value)]
    /\ UNCHANGED <<now, limiterVars, gatewayVars, toolsCache, channelVars, parseVars, capabilityVars>>

\* The promise of ability.invoke settles and the handler of message m runs on
\* (messageHandler.ts lines 156-198); summarize: whether the message's text
\* contains "summarize".
Resume(m, summarize) ==
    LET h == msgs[m]
        p == calls[h.call]
    IN
    /\ h.pc = "invoking"
    /\ p.state \in {"resolved", "rejected"}
    /\ msgs' = [msgs EXCEPT ![m] =
                  IF p.state = "rejected"
                  THEN say(h, "Tool call failed", p.value)
                  ELSE IF p.value = ""
                  THEN say(h, "Tool executed.", "")
                  ELSE IF summarize
                  THEN [h EXCEPT !.pc = "summarizing"]
                  ELSE say(h, "Tool Result", p.value)]
    /\ UNCHANGED <<now, limiterVars, gatewayVars, toolsCache, channelVars, parseVars, capabilityVars>>

\* The language model returns the summary (lines 172-187).
Summarized(m) ==
    /\ msgs[m].pc = "summarizing"
    /\ msgs' = [msgs EXCEPT ![m] = say(msgs[m], "summary", "")]
    /\ UNCHANGED <<now, limiterVars, gatewayVars, toolsCache, channelVars, parseVars, capabilityVars>>

\* The request for the summary fails inside the try block: the catch at
\* lines 195-198 replies.
SummaryFails(m) ==
    /\ msgs[m].pc = "summarizing"
    /\ msgs' = [msgs EXCEPT ![m] = say(msgs[m], "Tool call failed", "summary request failed")]
    /\ UNCHANGED <<now, limiterVars, gatewayVars, toolsCache, channelVars, parseVars, capabilityVars>>

(***************************************************************************)
(* kadiClient.ts: the text processing of fetchChannelsFromMCP.  A text is  *)
(* a sequence of characters, "ID" standing for the two letters I and D.    *)
(***************************************************************************)
NL == "\n"

Alphabet == {"ID", "x", ",", " ", NL}

Texts == UNION {[1 .. n -> Alphabet] : n \in 0 .. MaxLen}

\* Array.prototype.map
Map(f(_), xs) == [i \in 1 .. Len(xs) |-> f(xs[i])]

IsSpace(ch) == ch \in {" ", NL}

RECURSIVE TrimStart(_)
TrimStart(t) == IF Len(t) > 0 /\ IsSpace(t[1]) THEN TrimStart(Tail(t)) ELSE t

RECURSIVE TrimEnd(_)
TrimEnd(t) ==
    IF Len(t) > 0 /\ IsSpace(t[Len(t)]) THEN TrimEnd(SubSeq(t, 1, Len(t) - 1)) ELSE t

\* String.prototype.trim
trim(t) == TrimEnd(TrimStart(t))

\* String.prototype.split(sep) for a separator of one character
RECURSIVE split(_, _)
split(t, sep) ==
    IF \E i \in 1 .. Len(t) : t[i] = sep
    THEN LET i == CHOOSE k \in 1 .. Len(t) :
                      t[k] = sep /\ \A j \in 1 .. k - 1 : t[j] # sep
         IN  <<SubSeq(t, 1, i - 1)>> \o split(SubSeq(t, i + 1, Len(t)), sep)
    ELSE <<t>>

\* Array.prototype.join(sep)
RECURSIVE join(_, _)
join(xs, sep) ==
    IF Len(xs) = 0 THEN <<>>
    ELSE IF Len(xs) = 1 THEN xs[1]
    ELSE xs[1] \o <<sep>> \o join(Tail(xs), sep)

\* String.prototype.startsWith
startsWith(t, prefix) == Len(t) >= Len(prefix) /\ SubSeq(t, 1, Len(prefix)) = prefix

\* String.prototype.includes for one character
includes(t, ch) == \E i \in 1 .. Len(t) : t[i] = ch

\* Boolean(text)
Truthy(t) == Len(t) > 0

\* raw.startsWith("ID,") || raw.includes("\n") (line 279)
isCSV(raw) == startsWith(raw, <<"ID", ",">>) \/ includes(raw, NL)

\* raw.split("\n").map(l => l.trim()).filter(Boolean) (line 290)
linesOf(raw) == SelectSeq(Map(trim, split(raw, NL)), Truthy)

\* The value of a property that was assigned undefined.
UndefinedField == <<"undefined">>

\* The parsing of lines 290-300 with the fields left untrimmed.
parseChannelsUntrimmed(raw) ==
    LET lines == linesOf(raw)
        headers == Map(trim, split(lines[1], ","))
        rows == Tail(lines)
        record(line) ==
            LET cols == split(line, ",")
                last(h) == CHOOSE i \in 1 .. Len(headers) :
                               headers[i] = h /\ \A j \in i + 1 .. Len(headers) : headers[j] # h
            IN  [h \in {headers[i] : i \in 1 .. Len(headers)} |->
                    IF last(h) <= Len(cols) THEN cols[last(h)] ELSE UndefinedField]
    IN  Map(record, rows)

\* The parsing of lines 290-300: the first line gives the headers, every
\* further line a record in which obj[h] = cols[i] is assigned for each header
\* in turn, so that of two equal header names the later one's field stays.
parseChannels(raw) ==
    LET lines == linesOf(raw)
        headers == Map(trim, split(lines[1], ","))
        rows == Tail(lines)
        record(line) ==
            LET cols == Map(trim, split(line, ","))
                last(h) == CHOOSE i \in 1 .. Len(headers) :
                               headers[i] = h /\ \A j \in i + 1 .. Len(headers) : headers[j] # h
            IN  [h \in {headers[i] : i \in 1 .. Len(headers)} |->
                    IF last(h) <= Len(cols) THEN cols[last(h)] ELSE UndefinedField]
    IN  Map(record, rows)

NotParsed == [done |-> FALSE, csv |-> FALSE, rows |-> <<>>]

InitParse == payload = <<>> /\ parsed = NotParsed

\* Lines 279-305 applied to the text payload once trimmed (every branch of
\* lines 258-277 trims).
ParseText ==
    /\ ~parsed.done
    /\ LET raw == trim(payload) IN
       parsed' = IF isCSV(raw)
                 THEN [done |-> TRUE, csv |-> TRUE, rows |-> parseChannels(raw)]
                 ELSE [done |-> TRUE, csv |-> FALSE, rows |-> <<>>]
    /\ UNCHANGED <<now, limiterVars, gatewayVars, flowVars, channelVars, payload, capabilityVars>>

(***************************************************************************)
(* kadiClient.ts and index.ts: the channel cache, its first load in main() *)
(* and its refresh on the interval.                                        *)
(***************************************************************************)
\* The texts a channel listing may consist of: blank, one line without and
\* with the header signature, and a first line followed by one or two lines.
ChannelTexts ==
    {<<" ">>,
     <<"x">>,
     <<"ID", ",", "x">>,
     <<"ID", NL, "x">>,
     <<"x", NL, "ID">>,
     <<"ID", NL, "x", NL, "ID">>}

FalsyResponse == [kind |-> "falsy", text |-> <<>>, items |-> <<>>]

\* What the call of slack_channels_list may resolve with: a falsy value, a
\* string, an object with a content array of items (an item without a text
\* has the empty text here), an object with a result, any other object.
Responses ==
    {FalsyResponse}
    \cup {[kind |-> "string", text |-> t, items |-> <<>>] : t \in ChannelTexts}
    \cup {[kind |-> "content", text |-> <<>>, items |-> i] :
              i \in {<<<<"ID">>, <<"ID">>, <<"x">>>>, <<<<>>, <<"x">>>>}}
    \cup {[kind |-> "result", text |-> t, items |-> <<>>] : t \in {<<"x", NL, "x">>}}
    \cup {[kind |-> "object", text |-> <<>>, items |-> <<>>]}

\* JSON.stringify(response) of an object without content and result: one line
\* that starts with a brace.
stringify(response) == <<"{", "}">>

\* raw as lines 258-277 compute it from a truthy response.
rawOf(response) ==
    IF response.kind = "string" THEN trim(response.text)
    ELSE IF response.kind = "content"
    THEN trim(join(SelectSeq(response.items, Truthy), NL))
    ELSE IF response.kind = "result" THEN trim(response.text)
    ELSE trim(stringify(response))

\* How a load ends, given the settled promise p of its call and the response
\* it resolved with.
outcomeOf(p, response) ==
    IF p.state = "rejected" THEN "failed"
    ELSE IF response.kind = "falsy" THEN "empty"
    ELSE IF ~isCSV(rawOf(response)) THEN "notcsv"
    ELSE "parsed"

\* A fetch that returns no rows when its call fails.
fetchChannelsClearsOnFailure(p, response, cache) ==
    IF outcomeOf(p, response) = "parsed" THEN parseChannels(rawOf(response))
    ELSE IF outcomeOf(p, response) = "failed" THEN <<>>
    ELSE cache

\* A fetch that returns no rows for a payload that is no CSV.
fetchChannelsClearsOnNonCSV(p, response, cache) ==
    IF outcomeOf(p, response) = "parsed" THEN parseChannels(rawOf(response))
    ELSE IF outcomeOf(p, response) \in {"empty", "notcsv"} THEN <<>>
    ELSE cache

\* fetchChannelsFromMCP(ability, cachedChannels) from the settling of its
\* call on (lines 248-309): the parsed rows, or the rows it was given.
fetchChannelsFromMCP(p, response, cache) ==
    IF outcomeOf(p, response) = "parsed" THEN parseChannels(rawOf(response)) ELSE cache

\* A splice that starts at the second row: the first row stays.
spliceKeepsFirst(cache, rows) == SubSeq(cache, 1, IF Len(cache) > 0 THEN 1 ELSE 0) \o rows

\* A splice that inserts the rows without removing any.
spliceAppend(cache, rows) == cache \o rows

\* cachedChannels.splice(0, cachedChannels.length, ...rows): the arguments are
\* spread before anything is removed.
spliceAll(cache, rows) == SubSeq(cache, Len(cache) + 1, Len(cache)) \o rows

\* The responses a settled promise may stand for: its value is opaque to
\* ability.invoke, a falsy one apart.
ResponsesOf(p) ==
    IF p.state = "rejected" \/ p.value = "" THEN {FalsyResponse}
    ELSE Responses \ {FalsyResponse}

NoLoad ==
    [call |-> 0, initial |-> FALSE, outcome |-> "none", response |-> FalsyResponse,
     before |-> <<>>]

\* The load that awaits call c ends with response: the cache is spliced and
\* the load is recorded in the history.
finishLoad(c, response, initial) ==
    LET rows == fetchChannelsFromMCP(calls[c], response, cachedChannels) IN
    /\ cachedChannels' = spliceAll(cachedChannels, rows)
    /\ lastRefresh' = [call |-> c, initial |-> initial,
                       outcome |-> outcomeOf(calls[c], response),
                       response |-> response,
                       before |-> cachedChannels]
    /\ refresh' = 0

\* main() that starts the first load and goes on without awaiting it.
StartLoadNotAwaited(connection) ==
    LET c == NextCall IN
    /\ main = "preload"
    /\ c \in Calls
    /\ calls' = [calls EXCEPT ![c] = [invoke(c, "", connection) EXCEPT !.live = connection]]
    /\ refresh' = c
    /\ main' = "starting"
    /\ UNCHANGED <<now, limiterVars, flowVars, cachedChannels, lastRefresh, parseVars, capabilityVars>>

\* main() at lines 639-645: the first load calls ability.invoke and main
\* awaits it.
StartLoad(connection) ==
    LET c == NextCall IN
    /\ main = "preload"
    /\ c \in Calls
    /\ calls' = [calls EXCEPT ![c] = [invoke(c, "", connection) EXCEPT !.live = connection]]
    /\ refresh' = c
    /\ main' = "loading"
    /\ UNCHANGED <<now, limiterVars, flowVars, cachedChannels, lastRefresh, parseVars, capabilityVars>>

\* main() at lines 645-679: the first load returns, the cache is spliced,
\* the interval is set, the event handlers are registered and slackApp.start()
\* is called.
FinishLoad(response) ==
    /\ main = "loading"
    /\ calls[refresh].state \in {"resolved", "rejected"}
    /\ response \in ResponsesOf(calls[refresh])
    /\ finishLoad(refresh, response, TRUE)
    /\ main' = "starting"
    /\ UNCHANGED <<now, limiterVars, gatewayVars, flowVars, parseVars, capabilityVars>>

\* slackApp.start() resolves (lines 679-680).
AppStarted ==
    /\ main = "starting"
    /\ main' = "running"
    /\ UNCHANGED <<now, limiterVars, gatewayVars, flowVars, cachedChannels, refresh,
                   lastRefresh, parseVars, capabilityVars>>

\* The interval fires (lines 658-660): the refresh calls ability.invoke.  The
\* interval of ten minutes is longer than the deadline of a call, so that the
\* load before has ended.
RefreshTick(connection) ==
    LET c == NextCall IN
    /\ main \in {"starting", "running"}
    /\ refresh = 0
    /\ c \in Calls
    /\ calls' = [calls EXCEPT ![c] = [invoke(c, "", connection) EXCEPT !.live = connection]]
    /\ refresh' = c
    /\ UNCHANGED <<now, limiterVars, flowVars, main, cachedChannels, lastRefresh, parseVars, capabilityVars>>

\* The refresh returns and the cache is spliced (lines 660-661).
RefreshDone(response) ==
    /\ main \in {"starting", "running"}
    /\ refresh # 0
    /\ calls[refresh].state \in {"resolved", "rejected"}
    /\ response \in ResponsesOf(calls[refresh])
    /\ finishLoad(refresh, response, FALSE)
    /\ UNCHANGED <<now, limiterVars, gatewayVars, flowVars, main, parseVars, capabilityVars>>

(***************************************************************************)
(* The tools upstream: what the Slack MCP server registers with the broker *)
(* and may change while the agent runs.                                    *)
(***************************************************************************)
\* The tools whose registration upstream changes: one of slackTools and one
\* that slackTools does not list.
UpstreamTools == {"slack_channels_list", "slack_files_upload"}

\* When the process starts the server offers the tools that kadiClient.ts
\* lists (lines 111-137).
InitUpstream ==
    /\ upstream = slackTools
    /\ upstreamSince = [t \in UpstreamTools |-> StartTime]

\* The server registers tool t.
UpstreamAdds(t) ==
    /\ t \notin upstream
    /\ upstream' = upstream \cup {t}
    /\ upstreamSince' = [upstreamSince EXCEPT ![t] = now]
    /\ UNCHANGED <<now, limiterVars, gatewayVars, flowVars, channelVars, parseVars>>

\* The server withdraws tool t.
UpstreamRemoves(t) ==
    /\ t \in upstream
    /\ upstream' = upstream \ {t}
    /\ upstreamSince' = [upstreamSince EXCEPT ![t] = now]
    /\ UNCHANGED <<now, limiterVars, gatewayVars, flowVars, channelVars, parseVars>>

(***************************************************************************)
(* The state after startup.                                                *)
(***************************************************************************)
InitChannels ==
    /\ main = "running"
    /\ cachedChannels = <<>>
    /\ refresh = 0
    /\ lastRefresh = NoLoad

Init == InitLimiter /\ InitGateway /\ InitFlow /\ InitChannels /\ InitParse /\ InitUpstream

(***************************************************************************)
(* main() from the first channel load on, with the refresh interval and    *)
(* the broker.                                                             *)
(***************************************************************************)
InitMain ==
    /\ InitLimiter /\ InitGateway /\ InitFlow /\ InitParse /\ InitUpstream
    /\ main = "preload"
    /\ cachedChannels = <<>>
    /\ refresh = 0
    /\ lastRefresh = NoLoad

NextChannels ==
    \/ \E connection \in BOOLEAN : StartLoad(connection)
    \/ \E response \in Responses : FinishLoad(response)
    \/ \E connection \in BOOLEAN : RefreshTick(connection)
    \/ \E response \in Responses : RefreshDone(response)
    \/ \E c \in Calls : \E r \in Replies(c) : Acknowledge(c, r)
    \/ \E c \in Calls : Timeout(c)
    \/ \E message \in Messages : Deliver(message)

SpecChannels == InitMain /\ [][NextChannels]_vars

(***************************************************************************)
(* The startup: main() from the first channel load to the running agent,   *)
(* with the broker and the events that arrive once the handlers are        *)
(* registered.                                                             *)
(***************************************************************************)
NextStartup ==
    \/ \E connection \in BOOLEAN : StartLoad(connection)
    \/ \E response \in Responses : FinishLoad(response)
    \/ AppStarted
    \/ \E c \in Calls : \E r \in Replies(c) : Acknowledge(c, r)
    \/ \E c \in Calls : Timeout(c)
    \/ \E message \in Messages : Deliver(message)
    \/ \E m \in Msgs, u \in Users, bot \in BOOLEAN : SlackEvent(m, u, bot)

SpecStartup == InitMain /\ [][NextStartup]_vars

(***************************************************************************)
(* The parsing on its own, applied to every text up to MaxLen characters.  *)
(***************************************************************************)
InitTexts ==
    /\ InitLimiter /\ InitGateway /\ InitFlow /\ InitChannels /\ InitUpstream
    /\ payload \in Texts
    /\ parsed = NotParsed

SpecParse == InitTexts /\ [][ParseText]_vars

(***************************************************************************)
(* The limiter on its own: the clock and the two checks of one user.       *)
(***************************************************************************)

\* Time passes: Date.now() is read at a later instant.
Tick(instants) ==
    /\ \E t \in instants : t > now /\ now' = t
    /\ UNCHANGED <<limiterVars, gatewayVars, flowVars, channelVars, parseVars, capabilityVars>>

\* A message-rate check of user u.
MessageCheck(u) ==
    /\ CountBelowCap(u)
    /\ RateLimitCall(u)
    /\ UNCHANGED <<now, gatewayVars, flowVars, channelVars, parseVars, capabilityVars>>

\* A tool-cooldown check of user u.
ToolCheck(u) ==
    /\ ToolThrottleCall(u)
    /\ UNCHANGED <<now, gatewayVars, flowVars, channelVars, parseVars, capabilityVars>>

NextLimiter ==
    \/ Tick(Instants)
    \/ MessageCheck(Sender)
    \/ ToolCheck(Sender)

SpecLimiter == Init /\ [][NextLimiter]_vars

(***************************************************************************)
(* The gateway on its own: calls of ability.invoke made by any caller.     *)
(***************************************************************************)
\* A caller calls ability.invoke.
Invoke(c, connection) ==
    /\ c = NextCall
    /\ c <= MaxInvokes
    /\ calls' = [calls EXCEPT ![c] = [invoke(c, "", connection) EXCEPT !.live = connection]]
    /\ UNCHANGED <<now, limiterVars, flowVars, channelVars, parseVars, capabilityVars>>

NextGateway ==
    \/ \E c \in Calls, connection \in BOOLEAN : Invoke(c, connection)
    \/ \E c \in Calls : \E r \in Replies(c) : Acknowledge(c, r)
    \/ \E c \in Calls : Timeout(c)
    \/ \E message \in Messages : Deliver(message)

SpecGateway == Init /\ [][NextGateway]_vars

\* The gateway with its timers: a timer that stays armed fires (setTimeout,
\* line 166).  Nothing obliges the broker to answer or to notify.
SpecGatewayTimers == SpecGateway /\ \A c \in Calls : WF_vars(Timeout(c))

(***************************************************************************)
(* The capability cache while the tools upstream change: the clock, the    *)
(* server's registrations and the one interval main() sets, the channel    *)
(* refresh, here with the broker connection down.                          *)
(***************************************************************************)
\* The instants at which the clock is read: whole refresh periods.
RefreshInstants == {StartTime + k * TOOL_REFRESH_MS : k \in 0 .. MaxPeriods}

NextCapabilities ==
    \/ \E t \in UpstreamTools : UpstreamAdds(t)
    \/ \E t \in UpstreamTools : UpstreamRemoves(t)
    \/ Tick(RefreshInstants)
    \/ RefreshTick(FALSE)
    \/ \E response \in Responses : RefreshDone(response)

SpecCapabilities == Init /\ [][NextCapabilities]_vars

(***************************************************************************)
(* Calls of ability.invoke by any caller while the channel refresh makes   *)
(* its own on the interval: all share the connection.                      *)
(***************************************************************************)
\* What the refresh's call resolves with here: nothing, or a header and a row.
SharedResponses ==
    {FalsyResponse, [kind |-> "string", text |-> <<"ID", NL, "x">>, items |-> <<>>]}

NextShared ==
    \/ \E c \in Calls, connection \in BOOLEAN : Invoke(c, connection)
    \/ \E connection \in BOOLEAN : RefreshTick(connection)
    \/ \E response \in SharedResponses : RefreshDone(response)
    \/ \E c \in Calls : \E r \in Replies(c) : Acknowledge(c, r)
    \/ \E c \in Calls : Timeout(c)
    \/ \E message \in Messages : Deliver(message)

SpecShared == Init /\ [][NextShared]_vars

(***************************************************************************)
(* Messages that arrive while the channel refresh runs on the interval:    *)
(* the handlers read the cache that the refresh splices.                   *)
(***************************************************************************)
\* What the refresh's call resolves with here: nothing, a header and a row,
\* a header and two rows.
ReaderResponses ==
    {FalsyResponse,
     [kind |-> "string", text |-> <<"ID", NL, "x">>, items |-> <<>>],
     [kind |-> "string", text |-> <<"ID", NL, "x", NL, "ID">>, items |-> <<>>]}

NextReaders ==
    \/ \E m \in Msgs, bot \in BOOLEAN : SlackEvent(m, Sender, bot)
    \/ \E connection \in BOOLEAN : NextCall <= MaxInvokes /\ RefreshTick(connection)
    \/ \E response \in ReaderResponses : RefreshDone(response)
    \/ \E c \in Calls : \E r \in Replies(c) : Acknowledge(c, r)
    \/ \E c \in Calls : Timeout(c)
    \/ \E message \in Messages : Deliver(message)

SpecReaders == Init /\ [][NextReaders]_vars

(***************************************************************************)
(* The agent: messages handled concurrently, their calls of ability.invoke *)
(* and the limiter, with the clock and the broker.                         *)
(***************************************************************************)
Next ==
    \/ \E m \in Msgs, u \in Users, bot \in BOOLEAN : SlackEvent(m, u, bot)
    \/ \E m \in Msgs, u \in Users, a \in AgentNames : HandleSlackInput(m, u, a)
    \/ \E m \in Msgs, d \in Decisions : Decide(m, d)
    \/ \E m \in Msgs, summarize \in BOOLEAN : Resume(m, summarize)
    \/ \E m \in Msgs : Summarized(m)
    \/ \E m \in Msgs : DecisionFails(m)
    \/ \E m \in Msgs : SummaryFails(m)
    \/ \E c \in Calls : \E r \in Replies(c) : Acknowledge(c, r)
    \/ \E c \in Calls : Timeout(c)
    \/ \E message \in Messages : Deliver(message)
    \/ Tick(CooldownInstants)

Spec == Init /\ [][Next]_vars

(***************************************************************************)
(* The agent in a busy minute: the Sender's earlier messages of the        *)
(* current window have been handled and have brought messageCount to the  *)
(* maximum; the record was created by the first of them (rateLimit.ts      *)
(* lines 13-19), one cooldown before the clock's first reading.            *)
(***************************************************************************)
BusyLimit ==
    [lastToolCallTime |-> 0,
     messageCount |-> MAX_MESSAGES_PER_MINUTE,
     messageWindowStart |-> StartTime - TOOL_CALL_COOLDOWN_MS]

InitBusy ==
    /\ now = StartTime
    /\ userRateLimits = [u \in Users |-> IF u = Sender THEN BusyLimit ELSE Undefined]
    /\ lastCheck = NoCheck
    /\ msgsInWindow = [u \in Users |-> IF u = Sender THEN BusyLimit.messageCount ELSE 0]
    /\ prevTool = [u \in Users |-> NoTool]
    /\ span = [u \in Users |->
                 IF u = Sender
                 THEN [start |-> BusyLimit.messageWindowStart,
                       allowed |-> BusyLimit.messageCount]
                 ELSE [start |-> 0, allowed |-> 0]]
    /\ InitGateway /\ InitFlow /\ InitChannels /\ InitParse /\ InitUpstream

NextBusy ==
    \/ \E m \in Msgs, u \in Users, bot \in BOOLEAN : SlackEvent(m, u, bot)
    \/ \E m \in Msgs, u \in Users, a \in AgentNames : HandleSlackInput(m, u, a)
    \/ \E m \in Msgs, d \in Decisions : Decide(m, d)
    \/ \E m \in Msgs, summarize \in BOOLEAN : Resume(m, summarize)
    \/ \E m \in Msgs : Summarized(m)
    \/ \E c \in Calls : \E r \in Replies(c) : Acknowledge(c, r)
    \/ \E c \in Calls : Timeout(c)
    \/ \E message \in Messages : Deliver(message)
    \/ Tick(CooldownInstants)

SpecBusy == InitBusy /\ [][NextBusy]_vars

(***************************************************************************)
(* The limiter with two users in the busy minute: the Sender is at the     *)
(* maximum, the other user has no record yet and sends up to MaxExcess     *)
(* messages.                                                               *)
(***************************************************************************)
NextTwoUsers ==
    \/ Tick(CooldownInstants)
    \/ \E u \in Users : (u = Sender \/ msgsInWindow[u] < MaxExcess) /\ MessageCheck(u)
    \/ \E u \in Users : ToolCheck(u)

SpecTwoUsers == InitBusy /\ [][NextTwoUsers]_vars

(***************************************************************************)
(* Properties of the limiter.                                              *)
(***************************************************************************)
\* C7: of two consecutive tool-cooldown checks of one user, the first of them
\* allowed, the second is denied with a positive remaining wait when it comes
\* less than TOOL_CALL_COOLDOWN_MS after the first, and allowed when it comes
\* TOOL_CALL_COOLDOWN_MS or more after it.
C7_CooldownBetweenToolChecks ==
    (lastCheck.kind = "tool" /\ lastCheck.prevAllowed) =>
        LET apart == lastCheck.at - lastCheck.prevAt IN
        /\ apart < TOOL_CALL_COOLDOWN_MS =>
               ~lastCheck.result.allowed /\ lastCheck.result.seconds > 0
        /\ apart >= TOOL_CALL_COOLDOWN_MS => lastCheck.result.allowed

\* A second tool check 1999 ms after an allowed one has been denied, one second to wait.
C7_Witness ==
    /\ lastCheck.kind = "tool"
    /\ lastCheck.prevAllowed
    /\ lastCheck.at - lastCheck.prevAt = TOOL_CALL_COOLDOWN_MS - 1
    /\ ~lastCheck.result.allowed
    /\ lastCheck.result.seconds = 1

\* C9: a user's N-th message-rate check within one window is denied when
\* N > MAX_MESSAGES_PER_MINUTE, and a message-rate check made when more than
\* MESSAGE_WINDOW_MS have passed since messageWindowStart is allowed and
\* makes its own time the new messageWindowStart.
C9_WindowMaximumAndReset ==
    lastCheck.kind = "message" =>
        /\ lastCheck.n > MAX_MESSAGES_PER_MINUTE => ~lastCheck.result.allowed
        /\ IF lastCheck.before = Undefined
           THEN TRUE
           ELSE lastCheck.at - lastCheck.before.messageWindowStart > MESSAGE_WINDOW_MS =>
                    /\ lastCheck.result.allowed
                    /\ lastCheck.after.messageWindowStart = lastCheck.at

\* A user who had exceeded the maximum is allowed again in a new window.
C9_Witness ==
    /\ lastCheck.kind = "message"
    /\ lastCheck.before # Undefined
    /\ lastCheck.before.messageCount > MAX_MESSAGES_PER_MINUTE
    /\ lastCheck.at - lastCheck.before.messageWindowStart > MESSAGE_WINDOW_MS
    /\ lastCheck.result.allowed
    /\ lastCheck.after.messageWindowStart = lastCheck.at

\* C10: in every span of time shorter than MESSAGE_WINDOW_MS at most
\* MAX_MESSAGES_PER_MINUTE message-rate checks of one user are allowed.
C10_AtMostMaxPerMinute ==
    \A u \in Users : span[u].allowed <= MAX_MESSAGES_PER_MINUTE

(***************************************************************************)
(* Properties of ability.invoke.                                           *)
(***************************************************************************)
Started(c) == calls[c].state # "unused"

Settled(c) == calls[c].state \in {"resolved", "rejected"}

\* C1: for a call made with a live connection, at most one resolve or reject
\* takes effect; none has while the promise is pending, and the promise is
\* pending only while the deadline timer is armed, so that once the timer has
\* been cancelled or has fired exactly one has taken effect.
C1_ExactlyOneSettlement ==
    \A c \in Calls :
        (Started(c) /\ calls[c].live) =>
            /\ calls[c].effects <= 1
            /\ calls[c].state = "pending" <=> calls[c].effects = 0
            /\ calls[c].state = "pending" => calls[c].timer = "armed"
            /\ calls[c].state = "resolved" => calls[c].by \in {"inline", "notification"}
            /\ calls[c].state = "rejected" => calls[c].by \in {"timeout", "error"}

\* A call was rejected by its deadline and the inline result of its
\* submission came afterwards: the second settlement had no effect.
C1_Witness ==
    \E c \in Calls :
        /\ calls[c].live
        /\ calls[c].by = "timeout"
        /\ calls[c].state = "rejected"
        /\ calls[c].submission = "done"
        /\ calls[c].reply.kind = "inline"
        /\ calls[c].effects = 1

\* C2: a call is resolved by a notification only when the notification
\* carries the requestId that the broker issued for that call.
C2_ResolvedOnlyByOwnId ==
    \A c \in Calls :
        calls[c].by = "notification" => calls[c].byId = RequestId(c)

\* C3: a tool-result notification with the call's requestId that arrives
\* before the acknowledgment has been processed resolves the call with its
\* result.
C3_EarlyNotificationResolves ==
    \A c \in Calls :
        calls[c].early # "" =>
            calls[c].state = "resolved" /\ calls[c].value = calls[c].early

\* What a call shows to its caller and to the connection: the outcome of its
\* promise, its timer and its listener registration.
Outcome(p) == <<p.state, p.value, p.by, p.byId, p.effects, p.timer, p.listening>>

\* C4: the deadline of a pending call rejects it with the timeout error, and
\* after that neither a notification with the call's requestId nor the
\* acknowledgment of its submission changes the call's outcome, timer or
\* listener registration, any other call, the limiter or the handlers (a
\* late acknowledgment is only stored in the call's currentRequestId, which
\* nothing reads any more).
C4_TimeoutIsFinal ==
    [][\A c \in Calls :
          /\ (calls[c].state = "pending" /\ Timeout(c)) =>
                 /\ calls'[c].state = "rejected"
                 /\ calls'[c].value = "Tool invocation timeout"
          /\ (/\ calls[c].by = "timeout"
              /\ \/ \E r \in Replies(c) : Acknowledge(c, r)
                 \/ \E message \in Messages :
                        message.requestId = RequestId(c) /\ Deliver(message)) =>
                 /\ Outcome(calls'[c]) = Outcome(calls[c])
                 /\ \A d \in Calls \ {c} : calls'[d] = calls[d]
                 /\ UNCHANGED <<now, limiterVars, flowVars, channelVars, parseVars, capabilityVars>>
      ]_vars

\* A call was rejected by its deadline, and the acknowledgment of its
\* submission, carrying a requestId, was processed (before or after that).
C4_Witness ==
    \E c \in Calls :
        /\ calls[c].by = "timeout"
        /\ calls[c].value = "Tool invocation timeout"
        /\ calls[c].submission = "done"
        /\ calls[c].reply.kind = "pending"
        /\ calls[c].currentRequestId = RequestId(c)
        /\ ~calls[c].listening

\* C5: a call made while there is no connection is rejected at once with the
\* connection error; it registers no listener, arms no timer and submits
\* nothing.
C5_NoConnectionNoSetup ==
    \A c \in Calls :
        (Started(c) /\ ~calls[c].live) =>
            /\ calls[c].state = "rejected"
            /\ calls[c].value = "No broker connection available"
            /\ ~calls[c].listening
            /\ calls[c].timer = "none"
            /\ calls[c].submission = "none"

\* A call was made without a connection while another call, made with one,
\* was outstanding.
C5_Witness ==
    \E c, d \in Calls :
        /\ Started(c) /\ ~calls[c].live
        /\ calls[d].live /\ calls[d].state = "pending"

\* C6: a settled call has no listener registered on the connection.
C6_SettledCallsDoNotListen ==
    \A c \in Calls : Settled(c) => ~calls[c].listening

\* Calls settled on different paths: one by its notification, one by its
\* deadline, an inline result or a failed submission.
C6_Witness ==
    \E c, d \in Calls :
        /\ calls[c].by = "notification" /\ ~calls[c].listening
        /\ calls[d].by \in {"timeout", "inline", "error"} /\ ~calls[d].listening

(***************************************************************************)
(* Properties of the agent.                                                *)
(***************************************************************************)
\* The calls of ability.invoke that the handlers of user u's messages made.
InvocationsFor(u) == {c \in Calls : calls[c].state # "unused" /\ calls[c].user = u}

\* C8: any two calls of ability.invoke that the message handlers made for one
\* user are at least TOOL_CALL_COOLDOWN_MS apart, also when the handlers of
\* several messages of that user wait for their decisions at the same time.
C8_InvocationsSpacedByCooldown ==
    \A u \in Users : \A c, d \in InvocationsFor(u) :
        c < d => calls[d].at - calls[c].at >= TOOL_CALL_COOLDOWN_MS

\* Two handlers of one user's messages waited for their decisions together,
\* and both invoked a tool, the second TOOL_CALL_COOLDOWN_MS after the first.
C8_Witness ==
    \E m, o \in Msgs :
        /\ m # o
        /\ msgs[m].user = msgs[o].user
        /\ msgs[m].raced
        /\ msgs[m].call \in Calls /\ msgs[o].call \in Calls
        /\ calls[msgs[o].call].at - calls[msgs[m].call].at = TOOL_CALL_COOLDOWN_MS

\* The tool names the capability cache holds, under whichever key.
CachedTools ==
    UNION {toolsCache[a].tools : a \in {k \in AgentNames : toolsCache[k] # Undefined}}

\* C11: a decision that names a tool the capability cache does not hold is
\* answered with the "not available" reply; the step makes no call of
\* ability.invoke and leaves userRateLimits (with it lastToolCallTime) as
\* it was.
C11_UnknownToolStopsBeforeThrottle ==
    [][\A m \in Msgs, d \in Decisions :
          (d.kind = "tool" /\ d.tool \notin CachedTools /\ Decide(m, d)) =>
              /\ msgs'[m].pc = "done"
              /\ msgs'[m].replies = <<[kind |-> "Tool not available.", detail |-> d.tool]>>
              /\ msgs'[m].call = 0
              /\ UNCHANGED <<calls, userRateLimits>>
      ]_vars

\* A handler that looked the tools up under the key that holds them answered
\* "not available" for an unknown tool, for a user who had invoked a tool
\* before.
C11_Witness ==
    \E m \in Msgs :
        /\ msgs[m].agentName = "slack"
        /\ msgs[m].replies = <<[kind |-> "Tool not available.", detail |-> "slack_files_upload"]>>
        /\ msgs[m].call = 0
        /\ MapHas(userRateLimits, msgs[m].user)
        /\ userRateLimits[msgs[m].user].lastToolCallTime = StartTime
        /\ now > StartTime

\* C12: a message that came in through the event handlers and whose decision
\* names a tool held by the capability cache is not answered with the "not
\* available" reply.
C12_CachedToolPassesExistenceCheck ==
    \A m \in Msgs :
        msgs[m].via = "event" =>
            \A i \in 1 .. Len(msgs[m].replies) :
                msgs[m].replies[i].kind = "Tool not available." =>
                    msgs[m].replies[i].detail \notin CachedTools

\* C13: a decision that carries an answer is replied to with exactly the
\* answer's text; the step makes no call of ability.invoke and changes
\* neither userRateLimits nor toolsCache nor cachedChannels.
C13_AnswerIsRepliedVerbatim ==
    [][\A m \in Msgs, d \in Decisions :
          (d.kind = "answer" /\ Decide(m, d)) =>
              /\ msgs'[m].pc = "done"
              /\ msgs'[m].replies = <<[kind |-> "answer", detail |-> d.answer]>>
              /\ msgs'[m].call = 0
              /\ UNCHANGED <<calls, userRateLimits, toolsCache, cachedChannels>>
      ]_vars

\* An answer was replied while a call made for the same user was pending.
C13_Witness ==
    \E m \in Msgs, c \in Calls :
        /\ msgs[m].replies = <<[kind |-> "answer", detail |-> "a1"]>>
        /\ calls[c].state = "pending"
        /\ calls[c].user = msgs[m].user

\* The handler of message m has run to its end.
Finished(m) == msgs[m].pc \in {"done", "failed"}

\* C14: no handled message gets more than one reply, and a message whose
\* handler has run to its end has got exactly one.
C14_ExactlyOneReply ==
    \A m \in Msgs :
        /\ Len(msgs[m].replies) <= 1
        /\ Finished(m) => Len(msgs[m].replies) = 1

(***************************************************************************)
(* Properties of the channel parsing.                                      *)
(***************************************************************************)
\* No two of the names are equal.
Distinct(names) ==
    \A i, j \in 1 .. Len(names) : names[i] = names[j] => i = j

C15_ParsedRefreshReplacesCache ==
    lastRefresh.outcome = "parsed" =>
        LET raw == rawOf(lastRefresh.response) IN
        /\ cachedChannels = parseChannels(raw)
        /\ Len(cachedChannels) = Len(linesOf(raw)) - 1

\* A refresh parsed a payload of two lines after the header while the cache
\* held one row, which the payload does not list.
C15_Witness ==
    /\ lastRefresh.outcome = "parsed"
    /\ ~lastRefresh.initial
    /\ lastRefresh.before = <<(<<"x">> :> <<"ID">>)>>
    /\ cachedChannels = <<(<<"ID">> :> <<"x">>), (<<"ID">> :> <<"ID">>)>>

\* The payload of a response is empty: no text, or blank text.
EmptyPayload(response) ==
    response.kind = "falsy" \/ rawOf(response) = <<>>

\* The payload of a response is one line without the header signature.
SingleLineNoHeader(response) ==
    /\ response.kind # "falsy"
    /\ rawOf(response) # <<>>
    /\ ~includes(rawOf(response), NL)
    /\ ~startsWith(rawOf(response), <<"ID", ",">>)

\* C16: a load whose call resolved with an empty payload, or with a single
\* line that has not the header signature, leaves the cache with the rows it
\* had, in their order.
C16_EmptyOrPlainPayloadKeepsCache ==
    (/\ lastRefresh.outcome \notin {"none", "failed"}
     /\ EmptyPayload(lastRefresh.response) \/ SingleLineNoHeader(lastRefresh.response)) =>
        cachedChannels = lastRefresh.before

\* Refreshes with a blank payload and with a single plain line have left a
\* cache of two rows as it was.
C16_Witness ==
    /\ ~lastRefresh.initial
    /\ lastRefresh.outcome = "notcsv"
    /\ Len(lastRefresh.before) = 2
    /\ cachedChannels = lastRefresh.before

\* C18: a load whose call of ability.invoke is rejected (no connection,
\* timeout, broker error) leaves the cache as it was and main() where it
\* stood, with the next refresh free to run; a load that parses its payload
\* installs the payload's rows, also after a failed one.
C18_FailedRefreshKeepsCache ==
    /\ lastRefresh.outcome = "failed" =>
           /\ cachedChannels = lastRefresh.before
           /\ main = "starting"
           /\ refresh = 0 \/ refresh > lastRefresh.call
    /\ lastRefresh.outcome = "parsed" =>
           cachedChannels = parseChannels(rawOf(lastRefresh.response))

\* The first load filled the cache, the second load failed by its deadline,
\* and the third installed new rows.
C18_Witness ==
    /\ calls[1].state = "resolved"
    /\ calls[2].by = "timeout"
    /\ lastRefresh.call = 3
    /\ lastRefresh.outcome = "parsed"
    /\ lastRefresh.before # <<>>
    /\ cachedChannels # lastRefresh.before
    /\ cachedChannels # <<>>

(***************************************************************************)
(* Properties of the capability cache.                                     *)
(***************************************************************************)
\* C19: the capability cache follows the tools upstream by a refresh every
\* TOOL_REFRESH_MS: a tool that has been upstream for two whole periods, in
\* which one refresh at least has run, is in the cache, and a tool that has
\* been withdrawn for two whole periods is not.
C19_CapabilityCacheFollowsUpstream ==
    \A t \in UpstreamTools :
        now - upstreamSince[t] >= 2 * TOOL_REFRESH_MS =>
            (t \in CachedTools <=> t \in upstream)

(***************************************************************************)
(* Properties of startup.                                                  *)
(***************************************************************************)
\* Events can arrive, or one has: the handlers are registered and
\* slackApp.start() has been called.
AcceptsTraffic ==
    main \in {"starting", "running"} \/ \E m \in Msgs : msgs[m].pc # "idle"

\* C20: when the handlers are registered and events can arrive, the first
\* channel load has been attempted and has ended, its call settled either way;
\* after a first load that failed the cache is empty, and startup goes on to
\* the running state.
C20_FirstLoadEndsBeforeTraffic ==
    /\ AcceptsTraffic =>
           /\ main \in {"starting", "running"}
           /\ calls[1].state \in {"resolved", "rejected"}
           /\ lastRefresh.initial /\ lastRefresh.call = 1
           /\ refresh = 0
    /\ (AcceptsTraffic /\ lastRefresh.outcome = "failed") =>
           /\ cachedChannels = <<>>
           /\ main = "starting" => ENABLED AppStarted

\* The first load failed by its deadline, the agent runs with an empty cache
\* and has taken a message.
C20_Witness ==
    /\ main = "running"
    /\ calls[1].by = "timeout"
    /\ lastRefresh.outcome = "failed"
    /\ cachedChannels = <<>>
    /\ msgs[1].pc = "deciding"

(***************************************************************************)
(* Properties of the submission's callbacks.                               *)
(***************************************************************************)
\* C21: when the submission of a call returns an inline result before the
\* call's deadline has expired, the call is resolved with exactly that
\* result, its timer is cancelled and its listener is removed.
C21_InlineResultResolves ==
    [][\A c \in Calls : \A r \in Replies(c) :
          (r.kind = "inline" /\ calls[c].timer # "fired" /\ Acknowledge(c, r)) =>
              /\ calls'[c].state = "resolved"
              /\ calls'[c].value = r.result
              /\ calls'[c].timer = "cleared"
              /\ ~calls'[c].listening
      ]_vars

\* The acknowledgment of call c that carries the requestId issued for it.
Pending(c) == [kind |-> "pending", requestId |-> RequestId(c), result |-> ""]

\* message is a tool-result notification with the requestId of call c.
ResultFor(c, message) ==
    message.method = ABILITY_RESPONSE /\ message.requestId = RequestId(c)

\* The acknowledgment of call c, carrying a requestId, has been processed.
Acknowledged(c) ==
    calls[c].submission = "done" /\ calls[c].reply.kind = "pending"

\* C22: a call whose submission is acknowledged with a requestId before its
\* deadline is unsettled then and remembers the id; it stays unsettled until
\* its deadline expires or a tool-result notification with that id arrives,
\* and that notification resolves it with the notification's result and
\* cancels its timer; every other message leaves it as it is.
C22_AcknowledgedCallWaitsForResult ==
    [][\A c \in Calls :
          /\ (calls[c].timer # "fired" /\ Acknowledge(c, Pending(c))) =>
                 /\ calls'[c].state = "pending"
                 /\ calls'[c].currentRequestId = RequestId(c)
                 /\ calls'[c].timer = "armed"
                 /\ calls'[c].listening
          /\ (Acknowledged(c) /\ calls[c].state = "pending") =>
                 /\ \A message \in Messages :
                        Deliver(message) =>
                            IF ResultFor(c, message)
                            THEN /\ calls'[c].state = "resolved"
                                 /\ calls'[c].value = message.result
                                 /\ calls'[c].timer = "cleared"
                                 /\ ~calls'[c].listening
                            ELSE calls'[c] = calls[c]
                 /\ calls'[c].state # "pending" =>
                        \/ Timeout(c)
                        \/ \E message \in Messages : ResultFor(c, message) /\ Deliver(message)
      ]_vars

\* C23: when the submission of a call fails before the call's deadline has
\* expired, the call is rejected with the error of the failure, its timer is
\* cancelled and its listener removed, so that the deadline cannot expire for
\* it afterwards.
C23_FailedSubmissionRejects ==
    [][\A c \in Calls : \A r \in Replies(c) :
          (r.kind = "error" /\ calls[c].timer # "fired" /\ Acknowledge(c, r)) =>
              /\ calls'[c].state = "rejected"
              /\ calls'[c].value = r.result
              /\ calls'[c].by = "error"
              /\ calls'[c].timer = "cleared"
              /\ ~calls'[c].listening
              /\ ~(ENABLED Timeout(c))'
      ]_vars

\* The place of step in the setup of a call, 0 when the setup has not the step.
PlaceOf(step, setup) ==
    IF \E i \in 1 .. Len(setup) : setup[i] = step
    THEN CHOOSE i \in 1 .. Len(setup) : setup[i] = step
    ELSE 0

C25_EveryCallSettles ==
    \A c \in Calls :
        /\ [](calls[c].state = "pending" => calls[c].timer = "armed")
        /\ (calls[c].state = "pending") ~> Settled(c)

\* A call whose submission was never answered was rejected by its deadline.
C25_Witness ==
    \E c \in Calls :
        /\ calls[c].live
        /\ calls[c].submission = "inflight"
        /\ calls[c].by = "timeout"
        /\ calls[c].state = "rejected"

\* C26: the step that settles call c, or handles its acknowledgment or a
\* message with its requestId, changes nothing of any other call: not its
\* listener, timer, remembered requestId or outcome.  A channel refresh that
\* starts changes its own call only, and one that ends, failed or not,
\* changes no call.
C26_SettlingLeavesOtherCallsAlone ==
    [][/\ \A c \in Calls :
             (\/ \E r \in Replies(c) : Acknowledge(c, r)
              \/ Timeout(c)
              \/ \E message \in Messages :
                     message.requestId = RequestId(c) /\ Deliver(message)) =>
                 \A d \in Calls \ {c} : calls'[d] = calls[d]
       /\ (\E connection \in BOOLEAN : RefreshTick(connection)) =>
              \A d \in Calls \ {refresh'} : calls'[d] = calls[d]
       /\ (\E response \in Responses : RefreshDone(response)) => calls' = calls
      ]_vars

\* A channel refresh has failed by its deadline while another call,
\* acknowledged with its requestId, is still pending with its listener and
\* its timer.
C26_Witness ==
    \E c, d \in Calls :
        /\ lastRefresh.call = c
        /\ lastRefresh.outcome = "failed"
        /\ calls[c].by = "timeout"
        /\ d # c
        /\ calls[d].state = "pending"
        /\ Acknowledged(d)
        /\ calls[d].currentRequestId = RequestId(d)
        /\ calls[d].listening
        /\ calls[d].timer = "armed"

(***************************************************************************)
(* Properties of the limiter's fields.                                     *)
(***************************************************************************)
\* lastToolCallTime of a limiter record; a user without a record has made no
\* tool call, which is what checkRateLimit writes into a new record.
ToolTimeOf(limit) == IF limit = Undefined THEN 0 ELSE limit.lastToolCallTime

\* C27: a user's lastToolCallTime changes only in a tool-cooldown check of
\* that user that returns allowed, which sets it to the time of the check; a
\* denied tool-cooldown check leaves the user's whole record as it was.
C27_ToolStampOnlyWhenAllowed ==
    [][\A u \in Users :
          /\ ToolTimeOf(userRateLimits'[u]) # ToolTimeOf(userRateLimits[u]) =>
                 /\ lastCheck'.kind \in {"tool", "firsttool"}
                 /\ lastCheck'.user = u
                 /\ lastCheck'.at = now
                 /\ lastCheck'.result.allowed
                 /\ userRateLimits'[u].lastToolCallTime = now
          /\ (/\ lastCheck' # lastCheck
              /\ lastCheck'.kind \in {"tool", "firsttool"}
              /\ lastCheck'.user = u
              /\ ~lastCheck'.result.allowed) =>
                 userRateLimits'[u] = userRateLimits[u]
      ]_vars

\* A tool-cooldown check of a user who has sent messages was denied and left
\* the record, with the stamp of the allowed check before it, as it was.
C27_Witness ==
    /\ lastCheck.kind = "tool"
    /\ ~lastCheck.result.allowed
    /\ lastCheck.before # Undefined
    /\ lastCheck.after = lastCheck.before
    /\ lastCheck.before.messageCount > 0
    /\ lastCheck.before.lastToolCallTime = lastCheck.prevAt
    /\ lastCheck.at > lastCheck.prevAt

\* What a message-rate check of user u at time t shows and leaves for the
\* message-rate checks after it, given the limiter map limits.
MessageView(limits, u, t) ==
    LET out == checkRateLimit(limits, u, t) IN
    <<out.result.allowed, out.map[u].messageCount, out.map[u].messageWindowStart>>

\* What a tool-cooldown check of user u at time t shows and leaves for the
\* tool-cooldown checks after it.
ToolView(limits, u, t) ==
    LET out == checkToolCallThrottle(limits, u, t) IN
    <<out.result.allowed, out.result.seconds, out.map[u].lastToolCallTime>>

\* The limiter map as it was before the most recent check.
BeforeLastCheck == [userRateLimits EXCEPT ![lastCheck.user] = lastCheck.before]

\* C28: the two checks do not affect each other's fields.  After a
\* message-rate check, first of the user or not, a tool-cooldown check at any
\* later time gives what it would have given without it; after a
\* tool-cooldown check, first of the user or not, a message-rate check at any
\* later time gives and leaves the count and the window start that it would
\* have without it.
C28_ChecksDoNotAffectEachOther ==
    \A t \in {i \in Instants : i >= now} :
        /\ lastCheck.kind = "message" =>
               ToolView(userRateLimits, lastCheck.user, t)
                   = ToolView(BeforeLastCheck, lastCheck.user, t)
        /\ lastCheck.kind \in {"tool", "firsttool"} =>
               MessageView(userRateLimits, lastCheck.user, t)
                   = MessageView(BeforeLastCheck, lastCheck.user, t)

(***************************************************************************)
(* Properties of the tool execution.                                       *)
(***************************************************************************)
\* The handler of message m has replied with the cooldown denial.
Throttled(h) ==
    Len(h.replies) > 0 /\ h.replies[1].kind = "Throttle"

\* C29: when the decision names a cached tool and the tool-cooldown check
\* denies, the handler replies with the reason of the denial and ends: the
\* step starts no call of ability.invoke, and the message has none and gets
\* none afterwards.
C29_DeniedToolCallIsNotInvoked ==
    [][\A m \in Msgs :
          /\ \A d \in Decisions :
                 (/\ msgs[m].pc = "deciding"
                  /\ d.kind = "tool"
                  /\ d.tool \in toolsOf(toolsCache, msgs[m].agentName)
                  /\ ~checkToolCallThrottle(userRateLimits, msgs[m].user, now).result.allowed
                  /\ Decide(m, d)) =>
                     /\ msgs'[m].pc = "done"
                     /\ msgs'[m].replies =
                            <<[kind |-> "Throttle",
                               detail |-> checkToolCallThrottle(userRateLimits, msgs[m].user,
                                                                now).result.reason]>>
                     /\ msgs'[m].call = 0
                     /\ calls' = calls
          /\ Throttled(msgs[m]) => msgs'[m] = msgs[m] /\ msgs[m].call = 0
      ]_vars

\* A user's second tool decision came within the cooldown of the first: the
\* first message has its call, the second the denial and no call.
C29_Witness ==
    \E m, o \in Msgs :
        /\ msgs[m].user = msgs[o].user
        /\ msgs[m].call \in Calls
        /\ Throttled(msgs[o])
        /\ msgs[o].pc = "done"
        /\ msgs[o].call = 0
        /\ Cardinality({c \in Calls : calls[c].state # "unused"}) = 1

\* The handler of h has ended with the failure reply that carries the error
\* of its rejected call.
FailureReplied(h) ==
    /\ h.pc = "done"
    /\ h.replies = <<[kind |-> "Tool call failed", detail |-> calls[h.call].value]>>

\* C30: a handler whose call of ability.invoke is rejected, for the missing
\* connection, by the deadline or by a broker error, replies with the failure
\* message that carries the error's message and ends normally: it runs to
\* its end with that one reply, and no handler that has made a call ends by
\* an error.
C30_GatewayFailureIsReplied ==
    [][\A m \in Msgs :
          /\ (/\ msgs[m].pc = "invoking"
              /\ calls[msgs[m].call].state = "rejected"
              /\ \E summarize \in BOOLEAN : Resume(m, summarize)) =>
                 /\ msgs'[m].pc = "done"
                 /\ msgs'[m].replies =
                        <<[kind |-> "Tool call failed", detail |-> calls[msgs[m].call].value]>>
                 /\ calls[msgs[m].call].value \in
                        {"No broker connection available", "Tool invocation timeout",
                         "broker error"}
          /\ (/\ msgs[m].pc = "deciding"
              /\ msgs'[m].call \in Calls
              /\ calls'[msgs'[m].call].state = "rejected") =>
                 /\ msgs'[m].pc = "done"
                 /\ msgs'[m].replies =
                        <<[kind |-> "Tool call failed",
                           detail |-> "No broker connection available"]>>
          /\ (msgs'[m].call \in Calls /\ calls'[msgs'[m].call].state = "rejected") =>
                 msgs'[m].pc \in {"invoking", "done"}
      ]_vars

\* One handler's call was rejected by its deadline and another's by a broker
\* error; both have replied with the failure and ended.
C30_Witness ==
    \E m, o \in Msgs :
        /\ msgs[m].call \in Calls /\ msgs[o].call \in Calls
        /\ calls[msgs[m].call].by = "timeout"
        /\ calls[msgs[o].call].by = "error"
        /\ FailureReplied(msgs[m])
        /\ FailureReplied(msgs[o])

(***************************************************************************)
(* Properties of the event handlers.                                       *)
(***************************************************************************)
\* The handler of the message has replied with the rate-limit denial.
RateLimited(h) ==
    Len(h.replies) > 0 /\ h.replies[1].kind = "Rate limit"

\* C31: a message of a user (not a bot) that checkRateLimit denies is
\* answered with the reason of the denial and its handler ends there: the
\* message does not reach the decision, the step makes no tool-cooldown check
\* and no call of ability.invoke and changes nothing of the user's record but
\* messageCount, so lastToolCallTime stays; the message gets no call later.
C31_RateLimitedMessageStops ==
    [][\A m \in Msgs :
          /\ \A u \in Users :
                 (/\ ~checkRateLimit(userRateLimits, u, now).result.allowed
                  /\ SlackEvent(m, u, FALSE)) =>
                     /\ msgs'[m].pc = "done"
                     /\ msgs'[m].replies =
                            <<[kind |-> "Rate limit",
                               detail |-> checkRateLimit(userRateLimits, u, now).result.reason]>>
                     /\ msgs'[m].call = 0
                     /\ calls' = calls
                     /\ userRateLimits' =
                            [userRateLimits EXCEPT ![u].messageCount = @ + 1]
                     /\ ToolTimeOf(userRateLimits'[u]) = ToolTimeOf(userRateLimits[u])
          /\ RateLimited(msgs[m]) => msgs'[m] = msgs[m] /\ msgs[m].call = 0
      ]_vars

\* A call of handleSlackInput for the Sender led to a call of ability.invoke,
\* which stamped lastToolCallTime; the Sender's next message came in as an
\* event, was denied by the rate check, and the stamp is still the one of
\* that call.
C31_Witness ==
    \E m, o \in Msgs :
        /\ msgs[m].user = Sender /\ msgs[o].user = Sender
        /\ msgs[m].call \in Calls
        /\ RateLimited(msgs[o])
        /\ msgs[o].via = "event"
        /\ msgs[o].pc = "done"
        /\ msgs[o].call = 0
        /\ userRateLimits[Sender].lastToolCallTime = StartTime
        /\ userRateLimits[Sender].messageCount = MAX_MESSAGES_PER_MINUTE + 1
        /\ now > StartTime

(***************************************************************************)
(* Properties of malformed channel payloads.                               *)
(***************************************************************************)
\* The payload of a response has text, and its first line does not begin
\* with the header's first column name: it is not a header row followed by
\* data rows.
MalformedPayload(response) ==
    /\ response.kind # "falsy"
    /\ rawOf(response) # <<>>
    /\ rawOf(response)[1] # "ID"

\* C32: a load whose call resolved with a payload that is not a header row
\* followed by data rows, of one line or of several, takes the non-CSV
\* return, which logs the payload, and leaves the cache with the rows it had.
C32_MalformedPayloadKeepsCache ==
    (/\ lastRefresh.outcome \notin {"none", "failed"}
     /\ MalformedPayload(lastRefresh.response)) =>
        /\ lastRefresh.outcome = "notcsv"
        /\ cachedChannels = lastRefresh.before

(***************************************************************************)
(* Properties of the handlers' reads of the channel cache.                 *)
(***************************************************************************)
\* The rows the last completed load returned to main(), which are the whole
\* new contents; the empty list before any load.
LastInstalled ==
    IF lastRefresh.outcome = "none" THEN <<>>
    ELSE IF lastRefresh.outcome = "parsed" THEN parseChannels(rawOf(lastRefresh.response))
    ELSE lastRefresh.before

\* C33: a handler that builds its channel list reads the cache in one piece:
\* the list has one entry for each row that the last completed load returned,
\* in their order, and nothing else, whether or not a refresh is in flight
\* (whose rows it then does not see at all); the reading changes nothing of
\* the cache, and the list a handler has built stays as it is while later
\* refreshes replace the cache.
C33_HandlersReadWholeVersions ==
    [][\A m \in Msgs :
          /\ (msgs[m].pc = "idle" /\ msgs'[m].pc = "deciding") =>
                 /\ msgs'[m].channels = channelLookupText(LastInstalled)
                 /\ cachedChannels' = cachedChannels
          /\ msgs[m].pc # "idle" => msgs'[m].channels = msgs[m].channels
      ]_vars

\* A handler read a cache of one row while a refresh was in flight; that
\* refresh has since installed two rows, which a later handler has read.
C33_Witness ==
    \E m, o \in Msgs :
        /\ msgs[m].readDuring # 0
        /\ lastRefresh.call = msgs[m].readDuring
        /\ lastRefresh.outcome = "parsed"
        /\ Len(msgs[m].channels) = 1
        /\ Len(msgs[o].channels) = 2
        /\ msgs[o].channels = channelLookupText(cachedChannels)
        /\ msgs[o].readDuring = 0

(***************************************************************************)
(* Properties of the time before the acknowledgment.                       *)
(***************************************************************************)
\* Call c has been submitted, is unsettled, and the callback of its
\* submission has not run: currentRequestId is still undefined.
Unacknowledged(c) ==
    /\ calls[c].submission = "inflight"
    /\ calls[c].state = "pending"
    /\ calls[c].currentRequestId = NoId

\* C34: no message that the connection emits while a call is submitted and
\* its acknowledgment has not been processed settles the call, whatever the
\* message's method and with or without a requestId: the call stays pending
\* with its timer armed and its listener registered.
C34_NothingResolvesBeforeAcknowledgment ==
    [][\A c \in Calls, message \in Messages :
          (Unacknowledged(c) /\ Deliver(message)) =>
              /\ calls'[c].state = "pending"
              /\ calls'[c].timer = "armed"
              /\ calls'[c].listening
      ]_vars

(***************************************************************************)
(* Properties of a window in which the maximum was exceeded.               *)
(***************************************************************************)
\* A message-rate check of user u has been denied in the window of the
\* user's record: only a denied check writes a count above the maximum
\* (rateLimit.ts lines 29-36).
DeniedInWindow(limits, u) ==
    MapHas(limits, u) /\ limits[u].messageCount > MAX_MESSAGES_PER_MINUTE

\* C35: a denied message-rate check leaves a count above the maximum, one
\* higher than before, and the window start where it was; from then on the
\* count and the window start are changed by message-rate checks of that
\* user only, and every such check made while no more than MESSAGE_WINDOW_MS
\* have passed since the window start is denied in turn.
C35_DeniedUntilWindowEnds ==
    [][\A u \in Users :
          /\ (MessageCheck(u) /\ ~lastCheck'.result.allowed) =>
                 /\ DeniedInWindow(userRateLimits', u)
                 /\ userRateLimits'[u].messageCount = userRateLimits[u].messageCount + 1
                 /\ userRateLimits'[u].messageWindowStart = userRateLimits[u].messageWindowStart
          /\ DeniedInWindow(userRateLimits, u) =>
                 /\ (/\ MessageCheck(u)
                     /\ now - userRateLimits[u].messageWindowStart <= MESSAGE_WINDOW_MS) =>
                        ~lastCheck'.result.allowed
                 /\ ~MessageCheck(u) =>
                        /\ userRateLimits'[u].messageCount = userRateLimits[u].messageCount
                        /\ userRateLimits'[u].messageWindowStart =
                               userRateLimits[u].messageWindowStart
      ]_vars

\* A check made exactly MESSAGE_WINDOW_MS after the start of a window in which
\* the user had been denied, with a tool-cooldown check in between, was denied
\* and counted.
C35_Witness ==
    /\ lastCheck.kind = "message"
    /\ lastCheck.before # Undefined
    /\ lastCheck.before.messageCount > MAX_MESSAGES_PER_MINUTE
    /\ lastCheck.before.lastToolCallTime > lastCheck.before.messageWindowStart
    /\ lastCheck.at - lastCheck.before.messageWindowStart = MESSAGE_WINDOW_MS
    /\ ~lastCheck.result.allowed
    /\ lastCheck.after.messageCount = lastCheck.before.messageCount + 1
    /\ lastCheck.after.messageWindowStart = lastCheck.before.messageWindowStart

(***************************************************************************)
(* Properties of the limiter's records of different users.                 *)
(***************************************************************************)
\* C36: a message-rate check or a tool-cooldown check of one user leaves the
\* record of every other user as it was, a missing record missing, and with
\* it what either check of the other user returns at that moment and at any
\* later one.
C36_ChecksLeaveOtherUsersAlone ==
    [][\A u \in Users :
          (MessageCheck(u) \/ ToolCheck(u)) =>
              \A v \in Users \ {u} :
                  /\ userRateLimits'[v] = userRateLimits[v]
                  /\ \A t \in {i \in Instants : i >= now} :
                         /\ checkRateLimit(userRateLimits', v, t).result
                                = checkRateLimit(userRateLimits, v, t).result
                         /\ checkToolCallThrottle(userRateLimits', v, t).result
                                = checkToolCallThrottle(userRateLimits, v, t).result
      ]_vars

\* While the Sender is over the maximum and inside the cooldown, the other
\* user's first message-rate check has been allowed and has created that
\* user's record.
C36_Witness ==
    /\ DeniedInWindow(userRateLimits, Sender)
    /\ ~checkToolCallThrottle(userRateLimits, Sender, now).result.allowed
    /\ lastCheck.kind = "message"
    /\ lastCheck.user # Sender
    /\ lastCheck.before = Undefined
    /\ lastCheck.result.allowed
    /\ userRateLimits[lastCheck.user].messageCount = 1

====
